---- MODULE Spec2Model ----
(***************************************************************************)
(* kv-db: an in-memory SkipList index (skip_list.rs) backed by a           *)
(* length-prefixed write-ahead log (wal.rs), composed by DB (db.rs).       *)
(*                                                                         *)
(* Encodings used throughout:                                              *)
(*   Option<T>      None = << >>,  Some(x) = <<x>>                         *)
(*   Result<T, E>   Ok(x) = <<"Ok", x>>,  Err(e) = <<"Err", e>>            *)
(*   Vec<u8>        a sequence of numbers in 0..255                        *)
(*   arena index i  (0-based, as in the source) is nodes[i + 1]            *)
(***************************************************************************)
EXTENDS Integers, Sequences, FiniteSets, TLC

VARIABLES
    list,     \* a standalone SkipList (the skip_list.rs unit under test)
    disk,     \* Option<Vec<u8>>: the WAL file at the DB's path, None when absent
    db,       \* Option<DB>: None while no DB object exists, else [wal, sl]
    pc,       \* position of the caller inside DB::put
    arg,      \* Option<KvPair>: the pair of the DB::put call in flight
    last,     \* the caller's last call and what it returned (Pending inside it)
    acked,    \* per key, Option<value> of the last put that returned Ok
    view,     \* per key, what get returned when the DB object was last lost
    appends,  \* number of Wal::append calls started so far
    faults,   \* number of injected faults (failed writes, crashes inside put)
    hist,     \* the write at which an append failed on the open DB; per key,
              \* the same as it was when the last put of the key returned Ok
    fs,       \* per path, Option<Vec<u8>>: the files the Wal tests work on
    wals,     \* per name, Option<Wal>: the Wal objects of a Wal test
    log,      \* per path, the pairs whose append returned Ok, in call order
    made,     \* how the file under a read test was built (records, damage)
    lock,     \* Option<thread>: the holder of the Mutex<Wal>
    threads,  \* per thread, its position and the number of appends it made
    sized,    \* one append by its sizes: key and value lengths, prefix written
    twin      \* Option<SkipList>: a second SkipList given the same puts as list

wal_vars == <<fs, wals, log, made, lock, threads, sized>>

vars == <<list, disk, db, pc, arg, last, acked, view, appends, faults, hist, wal_vars, twin>>

(***************************************************************************)
(* Bounds of the model.                                                    *)
(***************************************************************************)
NumKeys == 3
MaxLevel == 1
MaxAppends == 3
MaxFaults == 1
MaxRecords == 2
NumThreads == 2
WritesPerThread == 2

None == << >>
Some(x) == <<x>>
Ok(x) == <<"Ok", x>>
Err(e) == <<"Err", e>>
Unit == << >>
Pending == <<"Pending", Unit>>

\* Keys of different lengths, so that the byte-lexicographic order is not
\* the order of a single byte: <<1>> < <<1,1>> < <<2>> < <<2,2>> < ...
KeyOf(i) == IF i % 2 = 1 THEN <<(i + 1) \div 2>> ELSE <<i \div 2, i \div 2>>
ValOf(j) == <<9 + j>>
Keys == {KeyOf(i) : i \in 1..NumKeys}
Values == {ValOf(1), ValOf(2)}

(***************************************************************************)
(* Vec<u8> ordering (Ord for Vec<u8>: lexicographic), as used by the       *)
(* search loops of SkipList::put and SkipList::get.                        *)
(***************************************************************************)
RECURSIVE cmp(_, _)
cmp(a, b) ==
    IF a = << >> /\ b = << >> THEN "Equal"
    ELSE IF a = << >> THEN "Less"
    ELSE IF b = << >> THEN "Greater"
    ELSE IF Head(a) < Head(b) THEN "Less"
    ELSE IF Head(a) > Head(b) THEN "Greater"
    ELSE cmp(Tail(a), Tail(b))

(***************************************************************************)
(* SkipList                                                                *)
(***************************************************************************)
Node(sl, i) == sl.nodes[i + 1]

SkipListNew(max_level) ==
    [ head |-> 0,
      nodes |-> << [ key |-> None, value |-> None,
                     forward |-> [i \in 0..max_level |-> None] ] >>,
      max_level |-> max_level,
      current_level |-> 0 ]

\* random_level: the number of leading heads among the coin flips, capped
\* at max_level (the loop stops at the first tail or at the cap).
RECURSIVE random_level_from(_, _, _)
random_level_from(coins, max_level, level) ==
    IF level < Len(coins) /\ coins[level + 1] /\ level < max_level
    THEN random_level_from(coins, max_level, level + 1)
    ELSE level

random_level(coins, max_level) == random_level_from(coins, max_level, 0)

\* random_level with the cap tested as `level <= self.max_level`.
LevelDraws_past_cap(max_level) ==
    { random_level(coins, max_level + 1) : coins \in [1..(max_level + 1) -> BOOLEAN] }

\* The levels random_level can return for all outcomes of the rng.
LevelDraws(max_level) ==
    { random_level(coins, max_level) : coins \in [1..max_level -> BOOLEAN] }

\* put_arm with the Equal arm lost: an equal key is passed like a greater one.
put_arm_no_update(ord) ==
    CASE ord = "Less" -> "advance"
      [] ord = "Equal" -> "break"
      [] ord = "Greater" -> "break"

\* put_arm that walks past an equal key as past a smaller one.
put_arm_equal_advances(ord) ==
    CASE ord = "Less" -> "advance"
      [] ord = "Equal" -> "advance"
      [] ord = "Greater" -> "break"

\* The arms of the match on key order in the search loop of put.
put_arm(ord) ==
    CASE ord = "Less" -> "advance"
      [] ord = "Equal" -> "update"
      [] ord = "Greater" -> "break"

\* The inner `while let Some(next_idx)` loop of put at level i, from node
\* current: the node the loop stops at, and the node with an equal key if
\* one was met.
RECURSIVE PutAdvance(_, _, _, _)
PutAdvance(sl, key, i, current) ==
    LET next == Node(sl, current).forward[i] IN
    IF next = None THEN [found |-> None, current |-> current]
    ELSE LET arm == put_arm(cmp(Node(sl, next[1]).key[1], key)) IN
         IF arm = "advance" THEN PutAdvance(sl, key, i, next[1])
         ELSE IF arm = "update" THEN [found |-> next, current |-> current]
         ELSE [found |-> None, current |-> current]

\* The outer `for i in (0..=current_level).rev()` loop of put; i = -1 ends it.
RECURSIVE PutSearch(_, _, _, _, _)
PutSearch(sl, key, i, current, update_buffer) ==
    IF i < 0 THEN [found |-> None, update_buffer |-> update_buffer]
    ELSE LET r == PutAdvance(sl, key, i, current) IN
         IF r.found # None
         THEN [found |-> r.found, update_buffer |-> update_buffer]
         ELSE PutSearch(sl, key, i - 1, r.current,
                        [update_buffer EXCEPT ![i] = Some(r.current)])

\* Splice that links the new node after the head on levels above 0, whatever
\* predecessor the search recorded.
RECURSIVE Splice_after_head(_, _, _, _, _, _)
Splice_after_head(nodes, update_buffer, head, new_index, i, level) ==
    IF i > level THEN nodes
    ELSE LET upd == IF update_buffer[i] = None \/ i > 0 THEN head
                    ELSE update_buffer[i][1]
             n1 == [nodes EXCEPT ![new_index + 1].forward[i] = nodes[upd + 1].forward[i]]
             n2 == [n1 EXCEPT ![upd + 1].forward[i] = Some(new_index)]
         IN  Splice_after_head(n2, update_buffer, head, new_index, i + 1, level)

\* Splice that leaves the new node's forward slot empty: the predecessor's
\* old successor is not handed on.
RECURSIVE Splice_drops_tail(_, _, _, _, _, _)
Splice_drops_tail(nodes, update_buffer, head, new_index, i, level) ==
    IF i > level THEN nodes
    ELSE LET upd == IF update_buffer[i] = None THEN head ELSE update_buffer[i][1]
             n2 == [nodes EXCEPT ![upd + 1].forward[i] = Some(new_index)]
         IN  Splice_drops_tail(n2, update_buffer, head, new_index, i + 1, level)

\* Splice that links the new node on level 0 only.
RECURSIVE Splice_level0_only(_, _, _, _, _, _)
Splice_level0_only(nodes, update_buffer, head, new_index, i, level) ==
    IF i > 0 THEN nodes
    ELSE LET upd == IF update_buffer[i] = None THEN head ELSE update_buffer[i][1]
             n1 == [nodes EXCEPT ![new_index + 1].forward[i] = nodes[upd + 1].forward[i]]
             n2 == [n1 EXCEPT ![upd + 1].forward[i] = Some(new_index)]
         IN  Splice_level0_only(n2, update_buffer, head, new_index, i + 1, level)

\* `for i in 0..=level`: splice the new node after its predecessor at level i.
RECURSIVE Splice(_, _, _, _, _, _)
Splice(nodes, update_buffer, head, new_index, i, level) ==
    IF i > level THEN nodes
    ELSE LET upd == IF update_buffer[i] = None THEN head ELSE update_buffer[i][1]
             n1 == [nodes EXCEPT ![new_index + 1].forward[i] = nodes[upd + 1].forward[i]]
             n2 == [n1 EXCEPT ![upd + 1].forward[i] = Some(new_index)]
         IN  Splice(n2, update_buffer, head, new_index, i + 1, level)

\* Raising the level with the sentinel's new slots left empty.
RaiseHead_clears(nodes, head, new_index, current_level, level) ==
    [nodes EXCEPT ![head + 1].forward =
        [j \in DOMAIN @ |-> IF j \in (current_level + 1)..level
                            THEN None ELSE @[j]]]

\* `if level > self.current_level`: the sentinel points at the new node on
\* every newly added level.
RaiseHead(nodes, head, new_index, current_level, level) ==
    [nodes EXCEPT ![head + 1].forward =
        [j \in DOMAIN @ |-> IF j \in (current_level + 1)..level
                            THEN Some(new_index) ELSE @[j]]]

\* SkipList::put with the level that random_level drew. update_buffer is
\* filled with None on entry, so it carries nothing between calls.
SkipList_put(sl, key, value, level) ==
    LET s == PutSearch(sl, key, sl.current_level, sl.head,
                       [i \in 0..sl.max_level |-> None])
    IN
    IF s.found # None
    THEN [sl EXCEPT !.nodes[s.found[1] + 1].value = Some(value)]
    ELSE LET new_node == [ key |-> Some(key), value |-> Some(value),
                           forward |-> [i \in 0..level |-> None] ]
             new_index == Len(sl.nodes)
             pushed == Append(sl.nodes, new_node)
             spliced == Splice(pushed, s.update_buffer, sl.head, new_index, 0, level)
         IN  IF level > sl.current_level
             THEN [sl EXCEPT
                     !.nodes = RaiseHead(spliced, sl.head, new_index,
                                         sl.current_level, level),
                     !.current_level = level]
             ELSE [sl EXCEPT !.nodes = spliced]

\* get_arm that takes the first key not below the target for the target.
get_arm_ge(ord) ==
    CASE ord = "Less" -> "advance"
      [] ord = "Equal" -> "return"
      [] ord = "Greater" -> "return"

\* get_arm with the comparison turned round.
get_arm_swapped(ord) ==
    CASE ord = "Less" -> "break"
      [] ord = "Equal" -> "return"
      [] ord = "Greater" -> "advance"

\* The arms of the match on key order in the search loop of get.
get_arm(ord) ==
    CASE ord = "Less" -> "advance"
      [] ord = "Equal" -> "return"
      [] ord = "Greater" -> "break"

\* The inner `while let` loop of get at one level.
RECURSIVE GetAdvance(_, _, _, _)
GetAdvance(sl, key, level, current) ==
    LET next == Node(sl, current).forward[level] IN
    IF next = None THEN [found |-> None, current |-> current]
    ELSE LET arm == get_arm(cmp(Node(sl, next[1]).key[1], key)) IN
         IF arm = "advance" THEN GetAdvance(sl, key, level, next[1])
         ELSE IF arm = "return" THEN [found |-> next, current |-> current]
         ELSE [found |-> None, current |-> current]

\* Search of get that looks along the top level only and does not go down.
GetSearch_top_only(sl, key, level, current) ==
    GetAdvance(sl, key, level, current).found

\* The outer `for level in (0..=current_level).rev()` loop of get.
RECURSIVE GetSearch(_, _, _, _)
GetSearch(sl, key, level, current) ==
    IF level < 0 THEN None
    ELSE LET r == GetAdvance(sl, key, level, current) IN
         IF r.found # None THEN r.found
         ELSE GetSearch(sl, key, level - 1, r.current)

\* SkipList::get: Ok(value) or Err(KeyNotFound).
SkipList_get(sl, key) ==
    LET f == GetSearch(sl, key, sl.current_level, sl.head) IN
    IF f = None THEN Err("KeyNotFound")
    ELSE IF Node(sl, f[1]).value = None THEN Err("KeyNotFound")
    ELSE Ok(Node(sl, f[1]).value[1])

(***************************************************************************)
(* SpecSL: a SkipList on its own, as the unit tests of skip_list.rs use    *)
(* it: SkipList::new, then put and get in any order.                       *)
(***************************************************************************)
NoKeys == [k \in Keys |-> None]

\* No append has failed.
NoHist == [failed |-> "no", late |-> [k \in Keys |-> "no"]]

NoView == [k \in Keys |-> Err("KeyNotFound")]

\* The paths and the Wal objects of the Wal tests, the threads of
\* test_concurrent_appends.
Paths == {"p1", "p2"}
WalNames == {"w1", "w2"}
Threads == 1..NumThreads

\* No file was built for a read test.
NotMade == [records |-> << >>, kind |-> "none", at |-> 0, cut |-> 0]
NotSized == [pc |-> "none"]

\* No Wal test has started: no file, no Wal object, no thread running.
NoWals ==
    /\ fs = [p \in Paths |-> None]
    /\ wals = [w \in WalNames |-> None]
    /\ log = [p \in Paths |-> << >>]
    /\ made = NotMade
    /\ lock = None
    /\ threads = [t \in Threads |-> [pc |-> "new", i |-> 0]]
    /\ sized = NotSized

\* A call: which operation, what it returned, and for a put whether a put
\* of the same key had returned Ok before.
Completed(op, ret, existed) == [op |-> op, ret |-> ret, existed |-> existed]

InitSL ==
    /\ \E max_level \in 0..MaxLevel : list = SkipListNew(max_level)
    /\ disk = None
    /\ db = None
    /\ pc = "idle"
    /\ arg = None
    /\ last = Completed("new", Ok(Unit), FALSE)
    /\ acked = NoKeys
    /\ view = NoView
    /\ appends = 0
    /\ faults = 0
    /\ hist = NoHist
    /\ twin = None
    /\ NoWals

\* put that sets current_level to the level drawn, higher or not.
SLPut_reset_level(key, value, level) ==
    /\ list' = [SkipList_put(list, key, value, level) EXCEPT !.current_level = level]
    /\ acked' = [acked EXCEPT ![key] = Some(value)]
    /\ last' = Completed("put", Ok(Unit), acked[key] # None)
    /\ UNCHANGED <<wal_vars, disk, db, pc, arg, view, appends, faults, hist, twin>>

\* put that stores the value in the sentinel as well.
SLPut_marks_sentinel(key, value, level) ==
    /\ list' = [SkipList_put(list, key, value, level) EXCEPT !.nodes[1].value = Some(value)]
    /\ acked' = [acked EXCEPT ![key] = Some(value)]
    /\ last' = Completed("put", Ok(Unit), acked[key] # None)
    /\ UNCHANGED <<wal_vars, disk, db, pc, arg, view, appends, faults, hist, twin>>

SLPut(key, value, level) ==
    /\ list' = SkipList_put(list, key, value, level)
    /\ acked' = [acked EXCEPT ![key] = Some(value)]
    /\ last' = Completed("put", Ok(Unit), acked[key] # None)
    /\ UNCHANGED <<wal_vars, disk, db, pc, arg, view, appends, faults, hist, twin>>

SLGet(key) ==
    /\ last' = Completed("get", SkipList_get(list, key), FALSE)
    /\ UNCHANGED <<wal_vars, list, disk, db, pc, arg, acked, view, appends, faults, hist, twin>>

NextSL ==
    \/ \E key \in Keys, value \in Values, level \in LevelDraws(list.max_level) :
          SLPut(key, value, level)
    \/ \E key \in Keys : SLGet(key)

SpecSL == InitSL /\ [][NextSL]_vars

(***************************************************************************)
(* SpecTwin: two SkipLists, list and twin, given the same put and get      *)
(* calls; each draws its own levels from its own rng.                      *)
(***************************************************************************)
InitTwin ==
    /\ \E max_level \in 0..MaxLevel : list = SkipListNew(max_level)
    /\ \E max_level \in 0..MaxLevel : twin = Some(SkipListNew(max_level))
    /\ disk = None
    /\ db = None
    /\ pc = "idle"
    /\ arg = None
    /\ last = Completed("new", Ok(Unit), FALSE)
    /\ acked = NoKeys
    /\ view = NoView
    /\ appends = 0
    /\ faults = 0
    /\ hist = NoHist
    /\ NoWals

\* put(key, value) on both, with the level each one drew.
TwinPut(key, value, level, twin_level) ==
    /\ list' = SkipList_put(list, key, value, level)
    /\ twin' = Some(SkipList_put(twin[1], key, value, twin_level))
    /\ acked' = [acked EXCEPT ![key] = Some(value)]
    /\ last' = Completed("put", Ok(Unit), acked[key] # None)
    /\ UNCHANGED <<wal_vars, disk, db, pc, arg, view, appends, faults, hist>>

\* get(key) on both; ret holds the two results.
TwinGet(key) ==
    /\ last' = Completed("get", [list |-> SkipList_get(list, key),
                                 twin |-> SkipList_get(twin[1], key)], FALSE)
    /\ UNCHANGED <<wal_vars, list, twin, disk, db, pc, arg, acked, view, appends,
                   faults, hist>>

NextTwin ==
    \/ \E key \in Keys, value \in Values,
          level \in LevelDraws(list.max_level),
          twin_level \in LevelDraws(twin[1].max_level) :
          TwinPut(key, value, level, twin_level)
    \/ \E key \in Keys : TwinGet(key)

SpecTwin == InitTwin /\ [][NextTwin]_vars

(***************************************************************************)
(* Bytes: the length prefix of wal.rs and the bincode payload of a KvPair.  *)
(* Every length of the model is below 2^24; TooLong stands for any length  *)
(* of 2^24 or more, which is longer than every file of the model.          *)
(***************************************************************************)
TooLong == 256 * 65536

\* u32::to_be_bytes of `serialized.len() as u32`.
to_be_bytes(n) ==
    << (n \div 16777216) % 256, (n \div 65536) % 256, (n \div 256) % 256, n % 256 >>

\* u32::from_be_bytes(len_buf) as usize.
from_be_bytes(b) ==
    IF b[1] # 0 THEN TooLong ELSE b[2] * 65536 + b[3] * 256 + b[4]

\* bincode writes the length of a Vec<u8> as a u64, little-endian.
u64_le(n) == << n % 256, (n \div 256) % 256, (n \div 65536) % 256, 0, 0, 0, 0, 0 >>

from_u64_le(b) ==
    IF \E i \in 4..8 : b[i] # 0 THEN TooLong
    ELSE b[1] + b[2] * 256 + b[3] * 65536

KvPair(key, value) == [key |-> key, value |-> value]

\* bincode::serialize(&kv): key length, key bytes, value length, value bytes.
serialize(kv) ==
    u64_le(Len(kv.key)) \o kv.key \o u64_le(Len(kv.value)) \o kv.value

\* One Vec<u8> off the front of data: Ok(<<bytes, rest>>) or Err.
read_vec(data) ==
    IF Len(data) < 8 THEN Err("bincode")
    ELSE LET n == from_u64_le(SubSeq(data, 1, 8)) IN
         IF Len(data) - 8 < n THEN Err("bincode")
         ELSE Ok(<< SubSeq(data, 9, 8 + n), SubSeq(data, 9 + n, Len(data)) >>)

\* bincode::deserialize(&data): the two byte vectors in turn; bytes left
\* over after the value are ignored.
deserialize(data) ==
    LET k == read_vec(data) IN
    IF k[1] = "Err" THEN Err("bincode")
    ELSE LET v == read_vec(k[2][2]) IN
         IF v[1] = "Err" THEN Err("bincode")
         ELSE Ok(KvPair(k[2][1], v[2][1]))

\* The bytes one successful append adds to the file.
Frame(kv) == to_be_bytes(Len(serialize(kv))) \o serialize(kv)

(***************************************************************************)
(* Wal                                                                     *)
(***************************************************************************)
\* Wal::new that does not create an absent file.
Wal_new_no_create(d) == d

\* Wal::new: OpenOptions read + append + create; an absent file is created
\* empty, an existing file keeps its bytes.
Wal_new(d) == IF d = None THEN Some(<< >>) ELSE d

\* Loop of read that returns an empty list when a payload is cut short.
RECURSIVE ReadLoop_empty_on_eof(_, _)
ReadLoop_empty_on_eof(rest, kv_pairs) ==
    IF Len(rest) < 4 THEN Ok(kv_pairs)
    ELSE LET record_len == from_be_bytes(SubSeq(rest, 1, 4))
             body == SubSeq(rest, 5, Len(rest))
         IN  IF Len(body) < record_len THEN Ok(<< >>)
             ELSE LET kv == deserialize(SubSeq(body, 1, record_len)) IN
                  IF kv[1] = "Err" THEN Err("Other")
                  ELSE ReadLoop_empty_on_eof(SubSeq(body, record_len + 1, Len(body)),
                                             Append(kv_pairs, kv[2]))

\* Loop of read that steps over a payload that does not deserialize.
RECURSIVE ReadLoop_skip_corrupt(_, _)
ReadLoop_skip_corrupt(rest, kv_pairs) ==
    IF Len(rest) < 4 THEN Ok(kv_pairs)
    ELSE LET record_len == from_be_bytes(SubSeq(rest, 1, 4))
             body == SubSeq(rest, 5, Len(rest))
         IN  IF Len(body) < record_len THEN Err("UnexpectedEof")
             ELSE LET kv == deserialize(SubSeq(body, 1, record_len)) IN
                  ReadLoop_skip_corrupt(SubSeq(body, record_len + 1, Len(body)),
                                        IF kv[1] = "Err" THEN kv_pairs
                                        ELSE Append(kv_pairs, kv[2]))

\* Loop of read that takes a cut length prefix for an error: only an end
\* of file at a record boundary ends the loop with Ok.
RECURSIVE ReadLoop_strict_eof(_, _)
ReadLoop_strict_eof(rest, kv_pairs) ==
    IF Len(rest) = 0 THEN Ok(kv_pairs)
    ELSE IF Len(rest) < 4 THEN Err("UnexpectedEof")
    ELSE LET record_len == from_be_bytes(SubSeq(rest, 1, 4))
             body == SubSeq(rest, 5, Len(rest))
         IN  IF Len(body) < record_len THEN Err("UnexpectedEof")
             ELSE LET kv == deserialize(SubSeq(body, 1, record_len)) IN
                  IF kv[1] = "Err" THEN Err("Other")
                  ELSE ReadLoop_strict_eof(SubSeq(body, record_len + 1, Len(body)),
                                           Append(kv_pairs, kv[2]))

\* The loop of Wal::read over the bytes not yet consumed.
RECURSIVE ReadLoop(_, _)
ReadLoop(rest, kv_pairs) ==
    IF Len(rest) < 4 THEN Ok(kv_pairs)
    ELSE LET record_len == from_be_bytes(SubSeq(rest, 1, 4))
             body == SubSeq(rest, 5, Len(rest))
         IN  IF Len(body) < record_len THEN Err("UnexpectedEof")
             ELSE LET kv == deserialize(SubSeq(body, 1, record_len)) IN
                  IF kv[1] = "Err" THEN Err("Other")
                  ELSE ReadLoop(SubSeq(body, record_len + 1, Len(body)),
                                Append(kv_pairs, kv[2]))

\* Wal::read on the file at the Wal's location.
Wal_read(d) == IF d = None THEN Err("NotFound") ELSE ReadLoop(d[1], << >>)

\* Loop of read_raw that returns what it has when a payload is cut short.
RECURSIVE ReadRawLoop_keep_partial(_, _)
ReadRawLoop_keep_partial(rest, raw_records) ==
    IF Len(rest) < 4 THEN Ok(raw_records)
    ELSE LET record_len == from_be_bytes(SubSeq(rest, 1, 4))
             body == SubSeq(rest, 5, Len(rest))
         IN  IF Len(body) < record_len THEN Ok(raw_records)
             ELSE ReadRawLoop_keep_partial(SubSeq(body, record_len + 1, Len(body)),
                                           Append(raw_records, SubSeq(body, 1, record_len)))

\* The loop of Wal::read_raw over the bytes not yet consumed.
RECURSIVE ReadRawLoop(_, _)
ReadRawLoop(rest, raw_records) ==
    IF Len(rest) < 4 THEN Ok(raw_records)
    ELSE LET record_len == from_be_bytes(SubSeq(rest, 1, 4))
             body == SubSeq(rest, 5, Len(rest))
         IN  IF Len(body) < record_len THEN Err("UnexpectedEof")
             ELSE ReadRawLoop(SubSeq(body, record_len + 1, Len(body)),
                              Append(raw_records, SubSeq(body, 1, record_len)))

\* Wal::read_raw on the file at the Wal's location.
Wal_read_raw(d) == IF d = None THEN Err("NotFound") ELSE ReadRawLoop(d[1], << >>)

\* A pass of the loop of read that seeks back to where it started.
ReadPass_rewinds(rest) ==
    IF Len(rest) < 4 THEN None
    ELSE LET record_len == from_be_bytes(SubSeq(rest, 1, 4))
             body == SubSeq(rest, 5, Len(rest))
         IN  IF Len(body) < record_len THEN None
             ELSE IF deserialize(SubSeq(body, 1, record_len))[1] = "Err" THEN None
             ELSE Some(rest)

\* One pass of the loop of Wal::read over the bytes not yet consumed: None
\* when the pass leaves the loop (break at EOF, `?` on a short payload,
\* return on a payload that does not deserialize), else Some of the bytes
\* left for the next pass.
ReadPass(rest) ==
    IF Len(rest) < 4 THEN None
    ELSE LET record_len == from_be_bytes(SubSeq(rest, 1, 4))
             body == SubSeq(rest, 5, Len(rest))
         IN  IF Len(body) < record_len THEN None
             ELSE IF deserialize(SubSeq(body, 1, record_len))[1] = "Err" THEN None
             ELSE Some(SubSeq(body, record_len + 1, Len(body)))

\* One pass of the loop of Wal::read_raw, likewise.
ReadRawPass(rest) ==
    IF Len(rest) < 4 THEN None
    ELSE LET record_len == from_be_bytes(SubSeq(rest, 1, 4))
             body == SubSeq(rest, 5, Len(rest))
         IN  IF Len(body) < record_len THEN None
             ELSE Some(SubSeq(body, record_len + 1, Len(body)))

\* The number of passes the loop of read makes over rest, counted up to
\* fuel: a loop still running after fuel passes counts fuel.
RECURSIVE ReadPasses(_, _)
ReadPasses(rest, fuel) ==
    IF fuel = 0 THEN 0
    ELSE LET left == ReadPass(rest) IN
         IF left = None THEN 1 ELSE 1 + ReadPasses(left[1], fuel - 1)

RECURSIVE ReadRawPasses(_, _)
ReadRawPasses(rest, fuel) ==
    IF fuel = 0 THEN 0
    ELSE LET left == ReadRawPass(rest) IN
         IF left = None THEN 1 ELSE 1 + ReadRawPasses(left[1], fuel - 1)

(***************************************************************************)
(* DB                                                                      *)
(***************************************************************************)
\* Result::unwrap_or_default on the result of Wal::read.
unwrap_or_default(r) == IF r[1] = "Ok" THEN r[2] ELSE << >>

\* Replay that stops one record short.
RECURSIVE Replay_skip_last(_, _, _, _)
Replay_skip_last(sl, existing, levels, i) ==
    IF i >= Len(existing) THEN sl
    ELSE Replay_skip_last(SkipList_put(sl, existing[i].key, existing[i].value, levels[i]),
                          existing, levels, i + 1)

\* `for KvPair { key, value } in existing { let _ = sl.put(key, value); }`
\* with levels[i] the level drawn for the i-th record.
RECURSIVE Replay(_, _, _, _)
Replay(sl, existing, levels, i) ==
    IF i > Len(existing) THEN sl
    ELSE Replay(SkipList_put(sl, existing[i].key, existing[i].value, levels[i]),
                existing, levels, i + 1)

\* DB::get: the SkipList's answer, every error mapped to KeyNotFound.
DB_get(d, key) ==
    LET r == SkipList_get(d.sl, key) IN
    IF r[1] = "Ok" THEN r ELSE Err("KeyNotFound")

\* What every get on the DB returns at this moment.
GetAll(d) == [k \in Keys |-> DB_get(d, k)]

Init ==
    /\ list = SkipListNew(MaxLevel)
    /\ disk = None
    /\ db = None
    /\ pc = "idle"
    /\ arg = None
    /\ last = Completed("none", Ok(Unit), FALSE)
    /\ acked = NoKeys
    /\ view = NoView
    /\ appends = 0
    /\ faults = 0
    /\ hist = NoHist
    /\ twin = None
    /\ NoWals

\* DB::new that opens the WAL with truncation: the file is emptied.
DBNew_truncates(max_level, levels) ==
    /\ db = None
    /\ LET opened == Wal_new(disk)
           existing == unwrap_or_default(Wal_read(opened))
       IN  /\ DOMAIN levels = 1..Len(existing)
           /\ disk' = Some(<< >>)
           /\ db' = Some([ wal |-> [location |-> "db.wal"],
                           sl |-> Replay(SkipListNew(max_level), existing, levels, 1) ])
    /\ last' = Completed("new", Ok(Unit), FALSE)
    /\ view' = NoView
    /\ hist' = [hist EXCEPT !.failed = "no"]
    /\ UNCHANGED <<wal_vars, list, pc, arg, acked, appends, faults, twin>>

\* DB::new(location, max_level): open or create the WAL, replay it.
DBNew(max_level, levels) ==
    /\ db = None
    /\ LET opened == Wal_new(disk)
           existing == unwrap_or_default(Wal_read(opened))
       IN  /\ DOMAIN levels = 1..Len(existing)
           /\ disk' = opened
           /\ db' = Some([ wal |-> [location |-> "db.wal"],
                           sl |-> Replay(SkipListNew(max_level), existing, levels, 1) ])
    /\ last' = Completed("new", Ok(Unit), FALSE)
    /\ view' = NoView
    /\ hist' = [hist EXCEPT !.failed = "no"]
    /\ UNCHANGED <<wal_vars, list, pc, arg, acked, appends, faults, twin>>

\* DB::put that applies the pair to the SkipList before it appends it.
DBPutCall_index_first(key, value) ==
    /\ db # None
    /\ pc = "idle"
    /\ appends < MaxAppends
    /\ pc' = "write_len"
    /\ arg' = Some(KvPair(key, value))
    /\ appends' = appends + 1
    /\ last' = Completed("put", Pending, FALSE)
    /\ db' = Some([db[1] EXCEPT !.sl = SkipList_put(@, key, value, 0)])
    /\ UNCHANGED <<wal_vars, list, disk, acked, view, faults, hist, twin>>

\* DB::put up to its first write: the pair is built and Wal::append has
\* serialized it.
DBPutCall(key, value) ==
    /\ db # None
    /\ pc = "idle"
    /\ appends < MaxAppends
    /\ pc' = "write_len"
    /\ arg' = Some(KvPair(key, value))
    /\ appends' = appends + 1
    /\ last' = Completed("put", Pending, FALSE)
    /\ UNCHANGED <<wal_vars, list, disk, db, acked, view, faults, hist, twin>>

\* A failed append after which DB::put applies the pair all the same.
PutFails_applies ==
    /\ pc' = "idle"
    /\ arg' = None
    /\ last' = Completed("put", Err("KeyNotFound"), FALSE)
    /\ faults' = faults + 1
    /\ db' = Some([db[1] EXCEPT !.sl = SkipList_put(@, arg[1].key, arg[1].value, 0)])
    /\ hist' = [hist EXCEPT !.failed = pc]
    /\ UNCHANGED <<wal_vars, list, acked, view, appends, twin>>

\* A failed write inside Wal::append: `?` returns the io::Error, DB::put
\* maps it to KeyNotFound and returns; the SkipList is not touched.
PutFails ==
    /\ pc' = "idle"
    /\ arg' = None
    /\ last' = Completed("put", Err("KeyNotFound"), FALSE)
    /\ faults' = faults + 1
    /\ hist' = [hist EXCEPT !.failed = pc]
    /\ UNCHANGED <<wal_vars, list, db, acked, view, appends, twin>>

\* self.file.write_all(&record_len.to_be_bytes())? returning Ok.
WriteLen ==
    /\ pc = "write_len"
    /\ disk' = Some(disk[1] \o to_be_bytes(Len(serialize(arg[1]))))
    /\ pc' = "write_payload"
    /\ UNCHANGED <<wal_vars, list, db, arg, last, acked, view, appends, faults, hist, twin>>

\* The same write_all failing after n of its 4 bytes reached the file.
WriteLenFails ==
    /\ pc = "write_len"
    /\ faults < MaxFaults
    /\ LET bytes == to_be_bytes(Len(serialize(arg[1]))) IN
       \E n \in 0..(Len(bytes) - 1) : disk' = Some(disk[1] \o SubSeq(bytes, 1, n))
    /\ PutFails

\* self.file.write_all(&serialized)?; self.file.flush()?; Ok(())
\* (flush on a File writes nothing and returns Ok).
WritePayload ==
    /\ pc = "write_payload"
    /\ disk' = Some(disk[1] \o serialize(arg[1]))
    /\ pc' = "sl_put"
    /\ UNCHANGED <<wal_vars, list, db, arg, last, acked, view, appends, faults, hist, twin>>

\* The payload write_all failing after n of its bytes reached the file.
WritePayloadFails ==
    /\ pc = "write_payload"
    /\ faults < MaxFaults
    /\ LET bytes == serialize(arg[1]) IN
       \E n \in 0..(Len(bytes) - 1) : disk' = Some(disk[1] \o SubSeq(bytes, 1, n))
    /\ PutFails

\* DB::put that returns Ok after the append without the SkipList put.
DBPutIndex_skip(level) ==
    /\ pc = "sl_put"
    /\ pc' = "idle"
    /\ arg' = None
    /\ acked' = [acked EXCEPT ![arg[1].key] = Some(arg[1].value)]
    /\ last' = Completed("put", Ok(Unit), acked[arg[1].key] # None)
    /\ hist' = [hist EXCEPT !.late[arg[1].key] = hist.failed]
    /\ UNCHANGED <<wal_vars, list, disk, db, view, appends, faults, twin>>

\* self.sl.put(key, value) after the append returned Ok, then Ok(()).
DBPutIndex(level) ==
    /\ pc = "sl_put"
    /\ db' = Some([db[1] EXCEPT !.sl = SkipList_put(@, arg[1].key, arg[1].value, level)])
    /\ pc' = "idle"
    /\ arg' = None
    /\ acked' = [acked EXCEPT ![arg[1].key] = Some(arg[1].value)]
    /\ last' = Completed("put", Ok(Unit), acked[arg[1].key] # None)
    /\ hist' = [hist EXCEPT !.late[arg[1].key] = hist.failed]
    /\ UNCHANGED <<wal_vars, list, disk, view, appends, faults, twin>>

\* DB::get that inserts the key it did not find.
DBGet_inserts(key) ==
    /\ db # None
    /\ pc = "idle"
    /\ last' = Completed("get", DB_get(db[1], key), FALSE)
    /\ db' = IF DB_get(db[1], key)[1] = "Ok" THEN db
             ELSE Some([db[1] EXCEPT !.sl = SkipList_put(@, key, << >>, 0)])
    /\ UNCHANGED <<wal_vars, list, disk, pc, arg, acked, view, appends, faults, hist, twin>>

\* DB::get
DBGet(key) ==
    /\ db # None
    /\ pc = "idle"
    /\ last' = Completed("get", DB_get(db[1], key), FALSE)
    /\ UNCHANGED <<wal_vars, list, disk, db, pc, arg, acked, view, appends, faults, hist, twin>>

\* The DB object is dropped between calls: the file handle is closed, the
\* SkipList is freed, the file stays.
DBDrop ==
    /\ db # None
    /\ pc = "idle"
    /\ db' = None
    /\ view' = GetAll(db[1])
    /\ last' = Completed("drop", Ok(Unit), FALSE)
    /\ UNCHANGED <<wal_vars, list, disk, pc, arg, acked, appends, faults, hist, twin>>

\* The process dies inside DB::put. A write_all in progress has written any
\* number of its bytes short of all of them; bytes already written stay in
\* the file.
Crash ==
    /\ db # None
    /\ pc # "idle"
    /\ faults < MaxFaults
    /\ LET bytes == IF pc = "write_len" THEN to_be_bytes(Len(serialize(arg[1])))
                    ELSE IF pc = "write_payload" THEN serialize(arg[1])
                    ELSE << >>
       IN  \E n \in 0..(IF bytes = << >> THEN 0 ELSE Len(bytes) - 1) :
              disk' = Some(disk[1] \o SubSeq(bytes, 1, n))
    /\ db' = None
    /\ view' = GetAll(db[1])
    /\ pc' = "idle"
    /\ arg' = None
    /\ last' = Completed("crash", Ok(Unit), FALSE)
    /\ faults' = faults + 1
    /\ UNCHANGED <<wal_vars, list, acked, appends, hist, twin>>

\* The operations of a DB when no write fails and the process is not killed.
NextOk ==
    \/ \E levels \in [1..Len(unwrap_or_default(Wal_read(Wal_new(disk)))) ->
                          LevelDraws(MaxLevel)] :
          DBNew(MaxLevel, levels)
    \/ \E key \in Keys, value \in Values : DBPutCall(key, value)
    \/ WriteLen
    \/ WritePayload
    \/ \E level \in LevelDraws(MaxLevel) : DBPutIndex(level)
    \/ \E key \in Keys : DBGet(key)
    \/ DBDrop

SpecOk == Init /\ [][NextOk]_vars

\* The same with failing writes and crashes inside put.
Next ==
    \/ NextOk
    \/ WriteLenFails
    \/ WritePayloadFails
    \/ Crash

Spec == Init /\ [][Next]_vars

(***************************************************************************)
(* SpecWal: Wal objects on two paths, as the unit tests of wal.rs use them: *)
(* Wal::new, append, read, read_raw and drop, in any order.                *)
(***************************************************************************)
db_vars == <<list, disk, db, pc, arg, acked, view, appends, faults, hist>>

\* The pairs the Wal tests append: key i with value i.
Records == {KvPair(KeyOf(i), ValOf(i)) : i \in 1..NumKeys}

\* Wal::new that truncates an existing file.
WalNew_truncate(w, p) ==
    /\ wals[w] = None
    /\ fs' = [fs EXCEPT ![p] = Some(<< >>)]
    /\ wals' = [wals EXCEPT ![w] = Some([location |-> p, found |-> Len(log[p])])]
    /\ last' = Completed("new", Ok(Unit), FALSE)
    /\ UNCHANGED <<db_vars, log, made, sized, lock, threads, twin>>

\* Wal::new(location). `found` is not a field of Wal: it notes how many
\* records the file held when this Wal was opened.
WalNew(w, p) ==
    /\ wals[w] = None
    /\ fs' = [fs EXCEPT ![p] = Wal_new(fs[p])]
    /\ wals' = [wals EXCEPT ![w] = Some([location |-> p, found |-> Len(log[p])])]
    /\ last' = Completed("new", Ok(Unit), FALSE)
    /\ UNCHANGED <<db_vars, log, made, sized, lock, threads, twin>>

\* Wal::append that writes the record to every file there is.
WalAppend_every_file(w, kv) ==
    /\ wals[w] # None
    /\ Len(log["p1"]) + Len(log["p2"]) < MaxRecords
    /\ LET p == wals[w][1].location IN
       /\ fs' = [q \in Paths |-> IF fs[q] = None THEN None
                                 ELSE Some(fs[q][1] \o Frame(kv))]
       /\ log' = [log EXCEPT ![p] = Append(@, kv)]
    /\ last' = Completed("append", Ok(Unit), FALSE)
    /\ UNCHANGED <<db_vars, wals, made, sized, lock, threads, twin>>

\* Wal::append(kv) returning Ok: the length prefix, then the payload, go to
\* the end of the file at the Wal's location.
WalAppend(w, kv) ==
    /\ wals[w] # None
    /\ Len(log["p1"]) + Len(log["p2"]) < MaxRecords
    /\ LET p == wals[w][1].location IN
       /\ fs' = [fs EXCEPT ![p] =
                    Some(@[1] \o to_be_bytes(Len(serialize(kv))) \o serialize(kv))]
       /\ log' = [log EXCEPT ![p] = Append(@, kv)]
    /\ last' = Completed("append", Ok(Unit), FALSE)
    /\ UNCHANGED <<db_vars, wals, made, sized, lock, threads, twin>>

\* Wal::read
WalRead(w) ==
    /\ wals[w] # None
    /\ last' = Completed("read", Wal_read(fs[wals[w][1].location]), FALSE)
    /\ UNCHANGED <<db_vars, wal_vars, twin>>

\* Wal::read_raw
WalReadRaw(w) ==
    /\ wals[w] # None
    /\ last' = Completed("read_raw", Wal_read_raw(fs[wals[w][1].location]), FALSE)
    /\ UNCHANGED <<db_vars, wal_vars, twin>>

\* The Wal goes out of scope: its file handle is closed, the file stays.
WalDrop(w) ==
    /\ wals[w] # None
    /\ wals' = [wals EXCEPT ![w] = None]
    /\ last' = Completed("drop", Ok(Unit), FALSE)
    /\ UNCHANGED <<db_vars, fs, log, made, sized, lock, threads, twin>>

NextWal ==
    \/ \E w \in WalNames, p \in Paths : WalNew(w, p)
    \/ \E w \in WalNames, kv \in Records : WalAppend(w, kv)
    \/ \E w \in WalNames : WalRead(w)
    \/ \E w \in WalNames : WalReadRaw(w)
    \/ \E w \in WalNames : WalDrop(w)

SpecWal == Init /\ [][NextWal]_vars

(***************************************************************************)
(* SpecFile: read, read_raw and DB::new over a file built as the tests of    *)
(* wal.rs build theirs: records appended whole, then possibly the last one *)
(* cut short (test_truncated_record) or the payload of one overwritten     *)
(* (test_partial_corruption_in_the_middle).                                *)
(***************************************************************************)
RECURSIVE Frames(_)
Frames(records) ==
    IF records = << >> THEN << >> ELSE Frame(Head(records)) \o Frames(Tail(records))

\* The frame of kv with the first 5 bytes of its payload set to 0xFF.
CorruptFrame(kv) ==
    LET data == serialize(kv) IN
    to_be_bytes(Len(data)) \o [i \in 1..Len(data) |-> IF i <= 5 THEN 255 ELSE data[i]]

\* The bytes of the file a shape describes.
Build(m) ==
    IF m.kind = "torn"
    THEN Frames(SubSeq(m.records, 1, m.at - 1)) \o SubSeq(Frame(m.records[m.at]), 1, m.cut)
    ELSE IF m.kind = "corrupt"
    THEN Frames(SubSeq(m.records, 1, m.at - 1)) \o CorruptFrame(m.records[m.at])
         \o Frames(SubSeq(m.records, m.at + 1, Len(m.records)))
    ELSE Frames(m.records)

Logs == UNION {[1..n -> {KvPair(k, v) : k \in Keys, v \in Values}] : n \in 0..MaxRecords}

FileShapes ==
    {[records |-> r, kind |-> "whole", at |-> 0, cut |-> 0] : r \in Logs}
    \cup UNION {{[records |-> r, kind |-> "torn", at |-> Len(r), cut |-> c] :
                    c \in 1..(Len(Frame(r[Len(r)])) - 1)} : r \in Logs \ {<< >>}}
    \cup UNION {{[records |-> r, kind |-> "corrupt", at |-> i, cut |-> 0] :
                    i \in 1..Len(r)} : r \in Logs \ {<< >>}}

InitFile ==
    /\ made \in FileShapes
    /\ disk = Some(Build(made))
    /\ list = SkipListNew(MaxLevel)
    /\ db = None
    /\ pc = "idle"
    /\ arg = None
    /\ last = Completed("none", Ok(Unit), FALSE)
    /\ acked = NoKeys
    /\ view = NoView
    /\ appends = 0
    /\ faults = 0
    /\ hist = NoHist
    /\ twin = None
    /\ fs = [p \in Paths |-> None]
    /\ wals = [w \in WalNames |-> None]
    /\ log = [p \in Paths |-> << >>]
    /\ lock = None
    /\ threads = [t \in Threads |-> [pc |-> "new", i |-> 0]]
    /\ sized = NotSized

\* Wal::new(path)?.read() on the file
FileRead ==
    /\ last' = Completed("read", Wal_read(Wal_new(disk)), FALSE)
    /\ UNCHANGED <<list, disk, db, pc, arg, acked, view, appends, faults, hist, wal_vars, twin>>

\* Wal::new(path)?.read_raw() on the file
FileReadRaw ==
    /\ last' = Completed("read_raw", Wal_read_raw(Wal_new(disk)), FALSE)
    /\ UNCHANGED <<list, disk, db, pc, arg, acked, view, appends, faults, hist, wal_vars, twin>>

NextFile ==
    \/ FileRead
    \/ FileReadRaw
    \/ \E levels \in [1..Len(unwrap_or_default(Wal_read(Wal_new(disk)))) ->
                          LevelDraws(MaxLevel)] :
          DBNew(MaxLevel, levels)

SpecFile == InitFile /\ [][NextFile]_vars

(***************************************************************************)
(* SpecMutex: test_concurrent_appends. One Wal behind a Mutex shared by    *)
(* NumThreads threads; each thread appends WritesPerThread pairs, holding  *)
(* the lock for the whole of each append; the main thread joins them and   *)
(* reads the file through a new Wal.                                       *)
(***************************************************************************)
\* The pair thread t appends in iteration i (key "t{t}-k{i}", value i).
ThreadPair(t, i) == KvPair(KeyOf(t), ValOf(i))

InitMutex ==
    /\ fs = [p \in Paths |-> IF p = "p1" THEN Some(<< >>) ELSE None]
    /\ wals = [w \in WalNames |->
                 IF w = "w1" THEN Some([location |-> "p1", found |-> 0]) ELSE None]
    /\ log = [p \in Paths |-> << >>]
    /\ made = NotMade
    /\ lock = None
    /\ threads = [t \in Threads |-> [pc |-> "new", i |-> 0]]
    /\ sized = NotSized
    /\ last = Completed("new", Ok(Unit), FALSE)
    /\ list = SkipListNew(MaxLevel)
    /\ disk = None
    /\ db = None
    /\ pc = "idle"
    /\ arg = None
    /\ acked = NoKeys
    /\ view = NoView
    /\ appends = 0
    /\ faults = 0
    /\ hist = NoHist
    /\ twin = None

\* thread::spawn in the loop of the main thread, in the order of t_id.
TSpawn(t) ==
    /\ threads[t].pc = "new"
    /\ \A u \in Threads : u < t => threads[u].pc # "new"
    /\ threads' = [threads EXCEPT ![t].pc = "build"]
    /\ UNCHANGED <<db_vars, last, fs, wals, log, made, sized, lock, twin>>

\* The thread builds the key and the value of its next pair.
TBuild(t) ==
    /\ threads[t].pc = "build"
    /\ threads' = [threads EXCEPT ![t].pc = "lock"]
    /\ UNCHANGED <<db_vars, last, fs, wals, log, made, sized, lock, twin>>

\* lock() that returns without waiting for the holder.
TLock_no_wait(t) ==
    /\ threads[t].pc = "lock"
    /\ lock' = Some(t)
    /\ threads' = [threads EXCEPT ![t].pc = "write_len"]
    /\ UNCHANGED <<db_vars, last, fs, wals, log, made, sized, twin>>

\* wal_clone.lock().unwrap(): returns once no thread holds the mutex.
TLock(t) ==
    /\ threads[t].pc = "lock"
    /\ lock = None
    /\ lock' = Some(t)
    /\ threads' = [threads EXCEPT ![t].pc = "write_len"]
    /\ UNCHANGED <<db_vars, last, fs, wals, log, made, sized, twin>>

\* Inside locked.append: write_all of the length prefix.
TWriteLen(t) ==
    /\ threads[t].pc = "write_len"
    /\ LET p == wals["w1"][1].location
           kv == ThreadPair(t, threads[t].i)
       IN  fs' = [fs EXCEPT ![p] = Some(@[1] \o to_be_bytes(Len(serialize(kv))))]
    /\ threads' = [threads EXCEPT ![t].pc = "write_payload"]
    /\ UNCHANGED <<db_vars, last, wals, log, made, sized, lock, twin>>

\* Inside locked.append: write_all of the payload, flush, Ok; the guard is
\* dropped at the end of the iteration and the loop goes on or ends.
TWritePayload(t) ==
    /\ threads[t].pc = "write_payload"
    /\ LET p == wals["w1"][1].location
           kv == ThreadPair(t, threads[t].i)
       IN  /\ fs' = [fs EXCEPT ![p] = Some(@[1] \o serialize(kv))]
           /\ log' = [log EXCEPT ![p] = Append(@, kv)]
    /\ lock' = None
    /\ threads' = [threads EXCEPT ![t] =
                      [pc |-> IF @.i + 1 < WritesPerThread THEN "build" ELSE "done",
                       i |-> @.i + 1]]
    /\ UNCHANGED <<db_vars, last, wals, made, sized, twin>>

\* Every thread is joined; Wal::new(path)?.read()
JoinRead ==
    /\ \A t \in Threads : threads[t].pc = "done"
    /\ last' = Completed("read", Wal_read(Wal_new(fs["p1"])), FALSE)
    /\ UNCHANGED <<db_vars, wal_vars, twin>>

NextMutex ==
    \/ \E t \in Threads : TSpawn(t)
    \/ \E t \in Threads : TBuild(t)
    \/ \E t \in Threads : TLock(t)
    \/ \E t \in Threads : TWriteLen(t)
    \/ \E t \in Threads : TWritePayload(t)
    \/ JoinRead

SpecMutex == InitMutex /\ [][NextMutex]_vars

(***************************************************************************)
(* SpecRace: two Wal instances open on one path, each used by its own      *)
(* caller with no lock between them. Wal::new opens the file in append     *)
(* mode, so every write_all lands at the end of the file as it is then;    *)
(* append makes two of them, and the other caller may run in between.      *)
(***************************************************************************)
\* The caller that holds Wal w: thread 1 holds "w1", thread 2 holds "w2".
Owner(w) == IF w = "w1" THEN 1 ELSE 2

InitRace ==
    /\ fs = [p \in Paths |-> None]
    /\ wals = [w \in WalNames |-> None]
    /\ log = [p \in Paths |-> << >>]
    /\ made = NotMade
    /\ lock = None
    /\ threads = [t \in Threads |-> [pc |-> "new", i |-> 0]]
    /\ sized = NotSized
    /\ last = Completed("none", Ok(Unit), FALSE)
    /\ list = SkipListNew(MaxLevel)
    /\ disk = None
    /\ db = None
    /\ pc = "idle"
    /\ arg = None
    /\ acked = NoKeys
    /\ view = NoView
    /\ appends = 0
    /\ faults = 0
    /\ hist = NoHist
    /\ twin = None

\* Wal::new(path) by the caller of w: both Wals are on path "p1".
RaceNew(w) ==
    /\ wals[w] = None
    /\ fs' = [fs EXCEPT !["p1"] = Wal_new(fs["p1"])]
    /\ wals' = [wals EXCEPT ![w] = Some([location |-> "p1", found |-> Len(log["p1"])])]
    /\ threads' = [threads EXCEPT ![Owner(w)].pc = "idle"]
    /\ last' = Completed("new", Ok(Unit), FALSE)
    /\ UNCHANGED <<db_vars, log, made, sized, lock, twin>>

\* The caller of w calls append with its next pair: the pair is serialized.
RaceAppend(w) ==
    /\ wals[w] # None
    /\ threads[Owner(w)].pc = "idle"
    /\ threads[Owner(w)].i < WritesPerThread
    /\ threads' = [threads EXCEPT ![Owner(w)].pc = "write_len"]
    /\ UNCHANGED <<db_vars, last, fs, wals, log, made, sized, lock, twin>>

\* append that writes the prefix and the payload in one write.
RaceWriteLen_whole_frame(w) ==
    /\ wals[w] # None
    /\ threads[Owner(w)].pc = "write_len"
    /\ LET kv == ThreadPair(Owner(w), threads[Owner(w)].i) IN
       fs' = [fs EXCEPT ![wals[w][1].location] = Some(@[1] \o Frame(kv))]
    /\ threads' = [threads EXCEPT ![Owner(w)].pc = "write_payload"]
    /\ UNCHANGED <<db_vars, last, wals, log, made, sized, lock, twin>>

\* self.file.write_all(&record_len.to_be_bytes())?
RaceWriteLen(w) ==
    /\ wals[w] # None
    /\ threads[Owner(w)].pc = "write_len"
    /\ LET kv == ThreadPair(Owner(w), threads[Owner(w)].i) IN
       fs' = [fs EXCEPT ![wals[w][1].location] =
                 Some(@[1] \o to_be_bytes(Len(serialize(kv))))]
    /\ threads' = [threads EXCEPT ![Owner(w)].pc = "write_payload"]
    /\ UNCHANGED <<db_vars, last, wals, log, made, sized, lock, twin>>

\* self.file.write_all(&serialized)?; self.file.flush()?; Ok(())
RaceWritePayload(w) ==
    /\ wals[w] # None
    /\ threads[Owner(w)].pc = "write_payload"
    /\ LET kv == ThreadPair(Owner(w), threads[Owner(w)].i) IN
       /\ fs' = [fs EXCEPT ![wals[w][1].location] = Some(@[1] \o serialize(kv))]
       /\ log' = [log EXCEPT ![wals[w][1].location] = Append(@, kv)]
    /\ threads' = [threads EXCEPT ![Owner(w)] = [pc |-> "idle", i |-> @.i + 1]]
    /\ last' = Completed("append", Ok(Unit), FALSE)
    /\ UNCHANGED <<db_vars, wals, made, sized, lock, twin>>

\* read through either Wal while no append is under way.
RaceRead(w) ==
    /\ wals[w] # None
    /\ \A v \in WalNames : threads[Owner(v)].pc \in {"new", "idle"}
    /\ last' = Completed("read", Wal_read(fs[wals[w][1].location]), FALSE)
    /\ UNCHANGED <<db_vars, wal_vars, twin>>

NextRace ==
    \/ \E w \in WalNames : RaceNew(w)
    \/ \E w \in WalNames : RaceAppend(w)
    \/ \E w \in WalNames : RaceWriteLen(w)
    \/ \E w \in WalNames : RaceWritePayload(w)
    \/ \E w \in WalNames : RaceRead(w)

SpecRace == InitRace /\ [][NextRace]_vars

(***************************************************************************)
(* SpecSized: the length prefix of one Wal::append as a function of the    *)
(* sizes of the pair, for payloads up to and beyond u32::MAX bytes. No     *)
(* byte of such a payload is kept, only lengths. A usize (64 bits) is      *)
(* three limbs <<hi, mid, lo>> standing for hi * 2^32 + mid * 2^16 + lo.   *)
(***************************************************************************)
Limb == 256 * 256

Usize(hi, mid, lo) == <<hi, mid, lo>>

\* a + b on usize.
usize_add(a, b) ==
    LET lo == a[3] + b[3]
        mid == a[2] + b[2] + (lo \div Limb)
    IN  << a[1] + b[1] + (mid \div Limb), mid % Limb, lo % Limb >>

\* serialized.len() of bincode::serialize(&kv): two u64 lengths of 8 bytes
\* each, the key bytes and the value bytes.
serialized_len(key_len, value_len) ==
    usize_add(usize_add(Usize(0, 0, 8), key_len),
              usize_add(Usize(0, 0, 8), value_len))

\* `serialized.len() as u32`: the cast keeps the low 32 bits.
as_u32(n) == Usize(0, n[2], n[3])

\* u32::to_be_bytes on a value given in limbs.
to_be_bytes_u32(n) == << n[2] \div 256, n[2] % 256, n[3] \div 256, n[3] % 256 >>

\* u32::from_be_bytes(len_buf) as usize, in limbs.
from_be_bytes_u32(b) == Usize(0, b[1] * 256 + b[2], b[3] * 256 + b[4])

\* Key lengths: none, one byte, and the 10 bytes of b"big_record".
KeyLens == { Usize(0, 0, 0), Usize(0, 0, 1), Usize(0, 0, 10) }

\* Value lengths from 0 to 2^33 - 1, among them the 1_000_008 bytes of
\* test_large_record (15 * 2^16 + 16968) and u32::MAX.
ValueLens ==
    { Usize(hi, mid, lo) : hi \in 0..1, mid \in {0, 1, 15, Limb - 1},
                           lo \in {0, 1, 16968, Limb - 1} }

InitSized ==
    /\ sized \in { [pc |-> "call", key_len |-> k, value_len |-> v,
                     payload_len |-> Usize(0, 0, 0), prefix |-> << >>] :
                      k \in KeyLens, v \in ValueLens }
    /\ fs = [p \in Paths |-> None]
    /\ wals = [w \in WalNames |-> None]
    /\ log = [p \in Paths |-> << >>]
    /\ made = NotMade
    /\ lock = None
    /\ threads = [t \in Threads |-> [pc |-> "new", i |-> 0]]
    /\ last = Completed("new", Ok(Unit), FALSE)
    /\ list = SkipListNew(MaxLevel)
    /\ disk = None
    /\ db = None
    /\ pc = "idle"
    /\ arg = None
    /\ acked = NoKeys
    /\ view = NoView
    /\ appends = 0
    /\ faults = 0
    /\ hist = NoHist
    /\ twin = None

\* Wal::append returning Ok: the prefix is record_len.to_be_bytes() with
\* record_len = serialized.len() as u32; payload_len is the number of
\* bytes the second write_all puts after it.
SizedAppend ==
    /\ sized.pc = "call"
    /\ LET len == serialized_len(sized.key_len, sized.value_len) IN
       sized' = [sized EXCEPT !.pc = "written",
                              !.payload_len = len,
                              !.prefix = to_be_bytes_u32(as_u32(len))]
    /\ last' = Completed("append", Ok(Unit), FALSE)
    /\ UNCHANGED <<db_vars, fs, wals, log, made, lock, threads, twin>>

NextSized == SizedAppend

SpecSized == InitSized /\ [][NextSized]_vars

(***************************************************************************)
(* Properties                                                              *)
(***************************************************************************)
KeyNotFound == Err("KeyNotFound")

\* What get must return for key when acked records the puts that returned Ok.
Expected(key) == IF acked[key] = None THEN KeyNotFound ELSE Ok(acked[key][1])

\* The bytes of one complete record for kv lie somewhere in the file.
HasFrame(bytes, kv) ==
    \E i \in 0..(Len(bytes) - Len(Frame(kv))) :
        SubSeq(bytes, i + 1, i + Len(Frame(kv))) = Frame(kv)

\* The complete records at the front of the file, in file order: the walk of
\* the framing up to the end of the file or the first record that is cut
\* short or does not decode.
RECURSIVE CompleteRecords(_, _)
CompleteRecords(rest, kv_pairs) ==
    IF Len(rest) < 4 THEN kv_pairs
    ELSE LET record_len == from_be_bytes(SubSeq(rest, 1, 4))
             body == SubSeq(rest, 5, Len(rest))
         IN  IF Len(body) < record_len THEN kv_pairs
             ELSE LET kv == deserialize(SubSeq(body, 1, record_len)) IN
                  IF kv[1] = "Err" THEN kv_pairs
                  ELSE CompleteRecords(SubSeq(body, record_len + 1, Len(body)),
                                       Append(kv_pairs, kv[2]))

\* The value of the last record for key among records, as get would report it.
LastFor(records, key) ==
    LET at == {i \in 1..Len(records) : records[i].key = key} IN
    IF at = {} THEN KeyNotFound
    ELSE Ok(records[CHOOSE i \in at : \A j \in at : j <= i].value)

\* The keys met walking forward[level] from the head, at most fuel steps.
RECURSIVE ChainFrom(_, _, _, _)
ChainFrom(sl, level, current, fuel) ==
    LET next == Node(sl, current).forward[level] IN
    IF next = None \/ fuel = 0 THEN << >>
    ELSE << Node(sl, next[1]).key[1] >> \o ChainFrom(sl, level, next[1], fuel - 1)

Chain(sl, level) == ChainFrom(sl, level, sl.head, Len(sl.nodes))

StrictlyIncreasing(keys) ==
    \A i \in 1..(Len(keys) - 1) : cmp(keys[i], keys[i + 1]) = "Less"

\* The arena indices of the nodes that hold key.
NodesOf(sl, key) == {i \in 0..(Len(sl.nodes) - 1) : Node(sl, i).key = Some(key)}

\* C1. Write-ahead invariant: while a DB is open, also inside a put, every
\* pair that get shows has a complete record in the WAL file, and the
\* SkipList put of a pair is reached only with that pair's record in the file.
C1_WriteAhead ==
    db # None =>
        /\ \A k \in Keys :
              DB_get(db[1], k)[1] = "Ok" =>
                  HasFrame(disk[1], KvPair(k, DB_get(db[1], k)[2]))
        /\ pc = "sl_put" => HasFrame(disk[1], arg[1])

\* Inside a put of a key that is not visible yet, with another pair visible.
C1_Witness ==
    /\ db # None
    /\ pc = "write_payload"
    /\ DB_get(db[1], arg[1].key) = KeyNotFound
    /\ \E k \in Keys : DB_get(db[1], k)[1] = "Ok"

\* C2. Crash durability: every put that returned Ok is visible in every DB
\* that is open afterwards, through any crash and reopening, with the value
\* of the last such put for its key.
C2_CrashDurability ==
    db # None => \A k \in Keys : acked[k] # None => DB_get(db[1], k) = Expected(k)

\* C3. Replay idempotence: when every put succeeds (SpecOk), a DB
\* constructed after a drop gives for every key the get result the dropped
\* DB gave, and KeyNotFound for every key never put; so does every later
\* drop and construction.
C3_ReplayIdempotent ==
    [][ (db = None /\ db' # None) =>
            /\ GetAll(db'[1]) = view
            /\ \A k \in Keys : acked[k] = None => DB_get(db'[1], k) = KeyNotFound ]_vars

\* A DB constructed after a drop, over a log of puts of two keys.
C3_Witness ==
    /\ db # None
    /\ last.op = "new"
    /\ \E k1, k2 \in Keys : k1 # k2 /\ acked[k1] # None /\ acked[k2] # None
    /\ \A k \in Keys : DB_get(db[1], k) = Expected(k)

\* C4. DB read-your-writes: on an open DB, when every put succeeds
\* (SpecOk), get returns for every key the value of the most recent put for
\* it, and KeyNotFound for a key never put.
C4_ReadYourWrites ==
    db # None => \A k \in Keys : DB_get(db[1], k) = Expected(k)

\* Scenario A: put(K1, V1); put(K2, V1); put(K1, V2) on a fresh DB.
C4_Witness ==
    /\ db # None
    /\ pc = "idle"
    /\ appends = 3
    /\ last = Completed("put", Ok(Unit), TRUE)
    /\ acked = [k \in Keys |-> IF k = KeyOf(1) THEN Some(ValOf(2))
                               ELSE IF k = KeyOf(2) THEN Some(ValOf(1)) ELSE None]
    /\ DB_get(db[1], KeyOf(1)) = Ok(ValOf(2))
    /\ DB_get(db[1], KeyOf(2)) = Ok(ValOf(1))
    /\ DB_get(db[1], KeyOf(3)) = KeyNotFound

\* C5. SkipList round-trip: after any sequence of puts, in any key order and
\* for any levels drawn, get of every key that was put returns the value most
\* recently put for it.
C5_RoundTrip ==
    \A k \in Keys : acked[k] # None => SkipList_get(list, k) = Ok(acked[k][1])

\* Three keys put in descending order, on more than one level.
C5_Witness ==
    /\ Len(list.nodes) = 4
    /\ Node(list, 1).key = Some(KeyOf(3))
    /\ Node(list, 2).key = Some(KeyOf(2))
    /\ Node(list, 3).key = Some(KeyOf(1))
    /\ list.current_level >= 1
    /\ \A k \in Keys : SkipList_get(list, k) = Ok(acked[k][1])

\* C6. Update overwrite: every key that was put, however often, has exactly
\* one arena node, a key never put has none, and get returns the value of
\* the last put.
C6_UpdateOverwrite ==
    \A k \in Keys :
        /\ Cardinality(NodesOf(list, k)) = IF acked[k] = None THEN 0 ELSE 1
        /\ acked[k] # None =>
              \A i \in NodesOf(list, k) : Node(list, i).value = acked[k]

\* A put of a key already in the list has just returned, next to another key.
C6_Witness ==
    /\ last = Completed("put", Ok(Unit), TRUE)
    /\ Len(list.nodes) = 3
    /\ \E k \in Keys : SkipList_get(list, k) = Ok(ValOf(2))

\* C7. Missing key: get of a key that was never put returns KeyNotFound, on
\* an empty SkipList and after any puts of other keys.
C7_MissingKey ==
    \A k \in Keys : acked[k] = None => SkipList_get(list, k) = KeyNotFound

\* The missing key sorts between the two stored keys, and a get has just
\* returned KeyNotFound.
C7_Witness ==
    /\ acked[KeyOf(1)] # None
    /\ acked[KeyOf(2)] = None
    /\ acked[KeyOf(3)] # None
    /\ last = Completed("get", KeyNotFound, FALSE)

\* C8. Sorted invariant: at every level 0..current_level the forward chain
\* from the head visits strictly increasing keys.
C8_Sorted ==
    \A l \in 0..list.current_level : StrictlyIncreasing(Chain(list, l))

\* Three keys put out of order, two of them on level 1.
C8_Witness ==
    /\ Len(list.nodes) = 4
    /\ Node(list, 1).key = Some(KeyOf(2))
    /\ Node(list, 2).key = Some(KeyOf(3))
    /\ Node(list, 3).key = Some(KeyOf(1))
    /\ list.current_level >= 1
    /\ Len(Chain(list, 1)) >= 2
    /\ Len(Chain(list, 0)) = 3

\* C9. DB::new replays every record of the WAL in file order: in the DB it
\* returns, every key has the value of the last record for it in the file,
\* and a key with no record is absent.
C9_ReplayAll ==
    (db # None /\ last.op = "new") =>
        \A k \in Keys : DB_get(db[1], k) = LastFor(CompleteRecords(disk[1], << >>), k)

\* C10. A failure of Wal::read during DB::new is a construction failure: no
\* open DB is returned over a file that Wal::read rejects.
C10_ReadFailurePropagates ==
    ~(db # None /\ last.op = "new" /\ Wal_read(disk)[1] = "Err")

\* C11. WAL round-trip in order: on every path, whatever Wal objects were
\* opened and dropped on it, read returns exactly the pairs whose append
\* returned Ok, unchanged and in the order of the calls.
C11_WalRoundTrip ==
    \A p \in Paths : fs[p] # None => Wal_read(fs[p]) = Ok(log[p])

\* A Wal opened over a file that already held a record has appended another
\* one after it, and read has returned both in order.
C11_Witness ==
    \E w \in WalNames :
        /\ wals[w] # None
        /\ wals[w][1].found >= 1
        /\ Len(log[wals[w][1].location]) > wals[w][1].found
        /\ log[wals[w][1].location][1] # log[wals[w][1].location][2]
        /\ last = Completed("read", Ok(log[wals[w][1].location]), FALSE)

\* The records of a built file that lie whole before its damaged record.
Before(m) == IF m.at = 0 THEN m.records ELSE SubSeq(m.records, 1, m.at - 1)

\* C12. Truncation tolerance: on a file of n complete records followed by a
\* length prefix and fewer payload bytes than it declares, read returns
\* either exactly the n complete records or an error.
C12_TruncationTolerance ==
    (made.kind = "torn" /\ made.cut >= 4) =>
        \/ Wal_read(disk) = Ok(Before(made))
        \/ Wal_read(disk)[1] = "Err"

\* read has run on a file with one complete record, then a length prefix
\* and half of the payload it declares.
C12_Witness ==
    /\ made.kind = "torn"
    /\ made.at = 2
    /\ made.cut = 4 + (Len(serialize(made.records[2])) \div 2)
    /\ last.op = "read"
    /\ last.ret = Wal_read(disk)
    /\ last.ret[1] = "Err"

\* C13. read returns the records read so far at end-of-file: on a file that
\* ends at a record boundary, inside a length prefix or inside a payload,
\* read returns Ok with every complete record before that point.
C13_EofReturnsRecords ==
    made.kind \in {"whole", "torn"} => Wal_read(disk) = Ok(Before(made))

\* C14. Corrupt payload: on a file with a record whose payload does not
\* deserialize, read returns the deserialization error, whatever follows
\* that record in the file.
C14_CorruptPayload ==
    made.kind = "corrupt" =>
        /\ Wal_read(disk) = Err("Other")
        /\ Wal_read(Some(Frames(Before(made)) \o CorruptFrame(made.records[made.at])))
              = Wal_read(disk)

\* read has run on a file whose first record is corrupt and is followed by
\* a good one.
C14_Witness ==
    /\ made.kind = "corrupt"
    /\ made.at = 1
    /\ Len(made.records) = 2
    /\ last = Completed("read", Err("Other"), FALSE)

\* C15. Records before a corruption are kept: after DB::new over a log whose
\* record at position i is corrupt, get returns for every key the value of
\* its last record among those before position i.
C15_PrefixKept ==
    (made.kind = "corrupt" /\ db # None /\ last.op = "new") =>
        \A k \in Keys : DB_get(db[1], k) = LastFor(Before(made), k)

\* The bytes are whole frames one after another, up to fewer than 4 bytes
\* at the end.
RECURSIVE Framed(_)
Framed(bytes) ==
    \/ Len(bytes) < 4
    \/ /\ from_be_bytes(SubSeq(bytes, 1, 4)) <= Len(bytes) - 4
       /\ Framed(SubSeq(bytes, 5 + from_be_bytes(SubSeq(bytes, 1, 4)), Len(bytes)))

\* C16. read_raw and read walk the same framing: read_raw returns Ok
\* exactly on the files that are whole frames up to end-of-file; where read
\* returns Ok, read_raw returns as many payloads, each deserializing to the
\* record read returns at its position; where read meets a payload cut
\* short, so does read_raw; on a log written by append the payloads are the
\* serialized records in order.
C16_ReadRawSameWalk ==
    LET raw == Wal_read_raw(disk)
        rd == Wal_read(disk)
    IN  /\ (raw[1] = "Ok") <=> Framed(disk[1])
        /\ rd[1] = "Ok" =>
              /\ raw[1] = "Ok"
              /\ Len(raw[2]) = Len(rd[2])
              /\ \A i \in 1..Len(rd[2]) : deserialize(raw[2][i]) = Ok(rd[2][i])
        /\ rd = Err("UnexpectedEof") => raw = Err("UnexpectedEof")
        /\ made.kind = "whole" =>
              /\ rd = Ok(made.records)
              /\ raw = Ok([i \in 1..Len(made.records) |-> serialize(made.records[i])])

\* read_raw has returned the two payloads of a log of two different records.
C16_Witness ==
    /\ made.kind = "whole"
    /\ Len(made.records) = 2
    /\ made.records[1] # made.records[2]
    /\ last = Completed("read_raw",
                        Ok(<<serialize(made.records[1]), serialize(made.records[2])>>),
                        FALSE)

\* C17. Empty or absent WAL is no prior state: DB::new on a path with no
\* file creates the file with zero bytes, read of that file returns the empty
\* list, and every get on the DB returned is KeyNotFound.
C17_AbsentIsEmpty ==
    [][ (disk = None /\ db' # None) =>
            /\ disk' = Some(<< >>)
            /\ Wal_read(disk') = Ok(<< >>)
            /\ \A k \in Keys : DB_get(db'[1], k) = KeyNotFound ]_vars

\* The DB that DB::new returned on a path that had no file.
C17_Witness ==
    /\ last.op = "new"
    /\ db # None
    /\ disk = Some(<< >>)
    /\ appends = 0
    /\ \A k \in Keys : DB_get(db[1], k) = KeyNotFound

\* C20. DB.get looks up only in the SkipList: a step in which get returns,
\* found or not, leaves the WAL file and the whole SkipList (arena, forward
\* pointers, current_level, values) as they were.
C20_GetChangesNothing ==
    [][ last'.op = "get" => (disk' = disk /\ db' = db) ]_vars

\* get has returned KeyNotFound on a DB that holds another key.
C20_Witness ==
    /\ db # None
    /\ last.op = "get"
    /\ last.ret = KeyNotFound
    /\ \E k \in Keys : DB_get(db[1], k)[1] = "Ok"

\* C19. Wal objects on different paths do not interfere: a step that
\* appends through a Wal on one path leaves the file at every other path as
\* it was, and read on each path returns the pairs appended to that path.
C19_PathsIndependent ==
    [][ \A p, q \in Paths :
            (p # q /\ log'[q] # log[q]) =>
                /\ fs'[p] = fs[p]
                /\ Wal_read(fs'[q]) = Ok(log'[q])
                /\ fs[p] # None => Wal_read(fs'[p]) = Ok(log[p]) ]_vars

\* Two Wal objects open on the two paths, each path with its own record,
\* right after an append.
C19_Witness ==
    /\ wals["w1"] # None
    /\ wals["w2"] # None
    /\ wals["w1"][1].location # wals["w2"][1].location
    /\ \A p \in Paths : Len(log[p]) = 1
    /\ log["p1"] # log["p2"]
    /\ last.op = "append"

\* C18. Appends from several threads under one mutex: once every thread has
\* made its appends, read returns NumThreads x WritesPerThread records, and
\* every pair a thread appended is among them exactly once, whatever the
\* interleaving was.
C18_MutexAppends ==
    (\A t \in Threads : threads[t].pc = "done") =>
        LET r == Wal_read(fs["p1"]) IN
        /\ r[1] = "Ok"
        /\ Len(r[2]) = NumThreads * WritesPerThread
        /\ \A t \in Threads, i \in 0..(WritesPerThread - 1) :
              Cardinality({j \in 1..Len(r[2]) : r[2][j] = ThreadPair(t, i)}) = 1

\* The main thread has read the log of a run in which the threads took
\* turns: the first two records come from different threads.
C18_Witness ==
    /\ \A t \in Threads : threads[t].pc = "done"
    /\ last.op = "read"
    /\ last.ret[1] = "Ok"
    /\ Len(last.ret[2]) = NumThreads * WritesPerThread
    /\ last.ret[2][1].key # last.ret[2][2].key

\* C21. Failed put leaves the index unchanged: from the call of DB::put to
\* the return of an error no step changes the SkipList, so every get returns
\* what it returned before the call, and the failing step returns an error.
C21_FailedPutNoChange ==
    [][ /\ (db # None /\ db' # None /\ pc # "sl_put") =>
              (db' = db /\ GetAll(db'[1]) = GetAll(db[1]))
        /\ (db' # None /\ faults' # faults) =>
              (pc # "idle" /\ pc' = "idle" /\ last'.op = "put" /\ last'.ret[1] = "Err")
      ]_vars

\* put has returned an error with part of its record in the file, on a DB
\* that shows a key and does not show another.
C21_Witness ==
    /\ db # None
    /\ last.op = "put"
    /\ last.ret[1] = "Err"
    /\ Wal_read(disk)[1] = "Err"
    /\ \E k \in Keys : DB_get(db[1], k)[1] = "Ok"
    /\ \E k \in Keys : DB_get(db[1], k) = KeyNotFound

\* C22. Error taxonomy: KeyNotFound is returned only by get; a put that
\* fails because a write to the WAL failed returns an error that is not
\* KeyNotFound.
C22_PutErrorIsIo ==
    last.op = "put" => last.ret # KeyNotFound

\* The level of a node: its forward array has LevelOf + 1 slots.
LevelOf(n) == Cardinality(DOMAIN n.forward) - 1

\* The arena indices of the nodes other than the sentinel.
NonHead(sl) == 1..(Len(sl.nodes) - 1)

\* C23. Re-insertion changes the value only: a put of a key already in the
\* index, whatever level was drawn, leaves the arena length, every node's
\* key and forward array, head, max_level and current_level as they were,
\* and changes no value but that of the node of the key put.
C23_ReinsertValueOnly ==
    [][ (last'.op = "put" /\ last'.existed) =>
            /\ Len(list'.nodes) = Len(list.nodes)
            /\ list'.head = list.head
            /\ list'.max_level = list.max_level
            /\ list'.current_level = list.current_level
            /\ \A i \in 0..(Len(list.nodes) - 1) :
                  /\ Node(list', i).key = Node(list, i).key
                  /\ Node(list', i).forward = Node(list, i).forward
                  /\ Node(list', i).value # Node(list, i).value =>
                        /\ i # list.head
                        /\ acked'[Node(list, i).key[1]] = Node(list', i).value
                        /\ acked'[Node(list, i).key[1]] # acked[Node(list, i).key[1]]
      ]_vars

\* A key was put again in a SkipList of three keys on two levels.
C23_Witness ==
    /\ last = Completed("put", Ok(Unit), TRUE)
    /\ Len(list.nodes) = 4
    /\ list.current_level >= 1
    /\ \E i \in NonHead(list) : Node(list, i).value = Some(ValOf(2))
    /\ \E i \in NonHead(list) : Node(list, i).value = Some(ValOf(1))

\* C24. current_level is the highest level in use: it equals the largest
\* level of a node other than the sentinel (0 when there is none), the
\* sentinel's forward[l] is set for every l in 1..=current_level and is
\* None for every l above current_level.
C24_CurrentLevelInUse ==
    LET used == {LevelOf(Node(list, i)) : i \in NonHead(list)} IN
    /\ list.current_level = IF used = {} THEN 0
                            ELSE CHOOSE l \in used : \A m \in used : m <= l
    /\ \A l \in 1..list.current_level : Node(list, list.head).forward[l] # None
    /\ \A l \in (list.current_level + 1)..list.max_level :
          Node(list, list.head).forward[l] = None

\* Nodes on level 0 only and a node on the top level in use.
C24_Witness ==
    /\ list.current_level >= 1
    /\ \E i, j \in NonHead(list) :
          /\ LevelOf(Node(list, i)) = 0
          /\ LevelOf(Node(list, j)) = list.current_level
          /\ i < j

\* C25. current_level only increases: no put and no get makes it smaller,
\* and it never exceeds max_level.
C25_LevelMonotone ==
    [][ /\ list'.current_level >= list.current_level
        /\ list'.current_level <= list'.max_level ]_vars

\* A new key was put with level 0 after the level had been raised.
C25_Witness ==
    /\ last = Completed("put", Ok(Unit), FALSE)
    /\ list.current_level >= 1
    /\ Len(list.nodes) >= 3
    /\ LevelOf(Node(list, Len(list.nodes) - 1)) = 0

\* One sentinel at index 0 with no key, no value and max_level + 1 forward
\* slots; every other node has a key and a value; one node per key put.
ArenaShape ==
    /\ list.head = 0
    /\ Node(list, 0).key = None
    /\ Node(list, 0).value = None
    /\ DOMAIN Node(list, 0).forward = 0..list.max_level
    /\ \A i \in NonHead(list) : Node(list, i).key # None /\ Node(list, i).value # None
    /\ \A k \in Keys :
          Cardinality(NodesOf(list, k)) = IF acked[k] = None THEN 0 ELSE 1
    /\ Len(list.nodes) = 1 + Cardinality({k \in Keys : acked[k] # None})

\* C26. Arena shape: in every reachable state the arena is one sentinel at
\* index 0 (no key, no value, max_level + 1 forward slots) and one node with
\* key and value per distinct key ever put; no step makes the arena shorter
\* or changes the key at an index.
C26_ArenaShape ==
    /\ []ArenaShape
    /\ [][ /\ Len(list'.nodes) >= Len(list.nodes)
           /\ \A i \in 0..(Len(list.nodes) - 1) : Node(list', i).key = Node(list, i).key
         ]_vars

\* Every key of the model is in the arena and one of them was put again.
C26_Witness ==
    /\ last = Completed("put", Ok(Unit), TRUE)
    /\ \A k \in Keys : acked[k] # None
    /\ Len(list.nodes) = 1 + Cardinality(Keys)
    /\ list.max_level >= 1

\* s is a prefix of t.
IsPrefix(s, t) == Len(s) <= Len(t) /\ SubSeq(t, 1, Len(s)) = s

\* C27: the log is append-only. No step removes or rewrites a byte already
\* in the WAL file: the file, once there, stays, and its old contents are a
\* prefix of its new contents. A DB::put that returns Ok has added exactly
\* one record at the end (the 4-byte length, then the payload, nothing
\* before, between or after), whether or not the key existed. DB::new only
\* creates a missing file as empty and leaves an existing one as it is, so
\* replay appends nothing; DB::get and dropping the DB leave the file alone.
C27_LogAppendOnly ==
    [][ /\ disk # None => (disk' # None /\ IsPrefix(disk[1], disk'[1]))
        /\ (disk = None /\ disk' # None) => (db = None /\ db' # None /\ disk' = Some(<< >>))
        /\ (db = None /\ db' # None /\ disk # None) => disk' = disk
        /\ (pc = "idle" /\ db # None) => disk' = disk
        /\ (pc = "write_len" /\ pc' = "write_payload") =>
               disk'[1] = disk[1] \o to_be_bytes(Len(serialize(arg[1])))
        /\ (pc = "write_payload" /\ pc' = "sl_put") =>
               disk'[1] = disk[1] \o serialize(arg[1])
        /\ (pc = "sl_put" /\ pc' = "idle" /\ last'.ret = Ok(Unit) /\ last'.op = "put") =>
               /\ disk' = disk
               /\ Len(disk[1]) >= Len(Frame(arg[1]))
               /\ SubSeq(disk[1], Len(disk[1]) - Len(Frame(arg[1])) + 1, Len(disk[1]))
                     = Frame(arg[1])
      ]_vars

\* A DB reopened over a file of two records for one key: both puts returned
\* Ok, the second on an existing key, and the replay left the file as it was.
C27_Witness ==
    /\ db # None
    /\ last.op = "new"
    /\ disk # None
    /\ \E k \in Keys, v1, v2 \in Values :
          disk[1] = Frame(KvPair(k, v1)) \o Frame(KvPair(k, v2))

\* C28: record framing. For every record append writes, whatever the
\* length of its payload, the 4 bytes before the payload, read as a
\* big-endian unsigned integer, are the byte length of the payload.
C28_PrefixIsLength ==
    sized.pc = "written" => from_be_bytes_u32(sized.prefix) = sized.payload_len

\* The walk along the forward pointers of one level, from current, comes
\* to a node without successor within fuel hops.
RECURSIVE Ends(_, _, _, _)
Ends(sl, level, current, fuel) ==
    LET next == Node(sl, current).forward[level] IN
    \/ next = None
    \/ /\ fuel > 0
       /\ next[1] \in 0..(Len(sl.nodes) - 1)
       /\ Ends(sl, level, next[1], fuel - 1)

\* Every level chain of sl is finite: from the head it ends after at most
\* as many hops as there are nodes beside the head, so it has no cycle.
ChainsEnd(sl) ==
    \A level \in 0..sl.max_level : Ends(sl, level, sl.head, Len(sl.nodes) - 1)

\* C29: every operation runs to completion. The searches of put and get
\* walk forward pointers from the head, and every level chain of the
\* SkipList of a DB ends without a cycle; the loops of Wal::read and
\* Wal::read_raw leave after at most one pass per 4 bytes of the file plus
\* one, whatever the file holds (whole, cut short, damaged), and read has
\* made one pass more than the records it returns.
C29_Terminates ==
    /\ db # None => ChainsEnd(db[1].sl)
    /\ ChainsEnd(list)
    /\ disk # None =>
          LET most == Len(disk[1]) \div 4 + 1 IN
          /\ ReadPasses(disk[1], most + 1) <= most
          /\ ReadRawPasses(disk[1], most + 1) <= most
          /\ Wal_read(disk)[1] = "Ok" =>
                ReadPasses(disk[1], most + 1) = Len(Wal_read(disk)[2]) + 1
          /\ Wal_read_raw(disk)[1] = "Ok" =>
                ReadRawPasses(disk[1], most + 1) = Len(Wal_read_raw(disk)[2]) + 1

\* A DB built from a file of two whole records with different keys, one of
\* them on level 1: both loops made three passes, the chains hold two nodes.
C29_Witness ==
    /\ db # None
    /\ last.op = "new"
    /\ Len(db[1].sl.nodes) = 3
    /\ db[1].sl.current_level = 1
    /\ ReadPasses(disk[1], Len(disk[1])) = 3
    /\ ReadRawPasses(disk[1], Len(disk[1])) = 3

\* The arena indices of the nodes on the chain of one level, in chain order.
RECURSIVE ChainNodesFrom(_, _, _, _)
ChainNodesFrom(sl, level, current, fuel) ==
    LET next == Node(sl, current).forward[level] IN
    IF next = None \/ fuel = 0 THEN << >>
    ELSE << next[1] >> \o ChainNodesFrom(sl, level, next[1], fuel - 1)

ChainNodes(sl, level) == ChainNodesFrom(sl, level, sl.head, Len(sl.nodes))

\* The last node on the chain of level whose key is smaller than key, the
\* head when there is none.
Pred(sl, level, key) ==
    LET c == ChainNodes(sl, level)
        smaller == {j \in 1..Len(c) : cmp(Node(sl, c[j]).key[1], key) = "Less"}
    IN  IF smaller = {} THEN sl.head
        ELSE c[CHOOSE j \in smaller : \A m \in smaller : m <= j]

\* after is before with one node for (key, value) of level + 1 forward
\* slots appended and spliced in after its predecessor on levels 0..level,
\* and nothing else changed.
Spliced(before, after, key, value, level) ==
    LET new_index == Len(before.nodes)
        new == Node(after, new_index)
    IN
    /\ Len(after.nodes) = Len(before.nodes) + 1
    /\ after.head = before.head
    /\ after.max_level = before.max_level
    /\ new.key = Some(key)
    /\ new.value = Some(value)
    /\ DOMAIN new.forward = 0..level
    /\ \A i \in 0..level :
          LET p == Pred(before, i, key) IN
          /\ new.forward[i] = Node(before, p).forward[i]
          /\ Node(after, p).forward[i] = Some(new_index)
          /\ i > before.current_level => (p = before.head /\ new.forward[i] = None)
    /\ \A j \in 0..(new_index - 1) :
          /\ Node(after, j).key = Node(before, j).key
          /\ Node(after, j).value = Node(before, j).value
          /\ DOMAIN Node(after, j).forward = DOMAIN Node(before, j).forward
          /\ \A i \in DOMAIN Node(before, j).forward :
                (i > level \/ j # Pred(before, i, key)) =>
                    Node(after, j).forward[i] = Node(before, j).forward[i]

\* C31: splice of a new key. In every reachable SkipList, put of a key not
\* in the index with drawn level L appends one node with L + 1 forward
\* slots; on each level i in 0..=L the node goes right after the last node
\* of that level with a smaller key (the head when there is none, and the
\* head with an empty forward slot above the old current_level): it takes
\* the predecessor's old forward[i] and the predecessor points at it. No
\* other forward pointer, key or value changes.
C31_SpliceNewKey ==
    \A key \in Keys, value \in Values, level \in LevelDraws(list.max_level) :
        NodesOf(list, key) = {} =>
            Spliced(list, SkipList_put(list, key, value, level), key, value, level)

\* The node pushed last went between two older nodes on level 0 and raised
\* the list to level 1: its level-0 predecessor is not the head, its
\* level-1 predecessor is.
C31_Witness ==
    /\ last.op = "put"
    /\ Len(list.nodes) = 4
    /\ list.current_level = 1
    /\ LevelOf(Node(list, 1)) = 0
    /\ LevelOf(Node(list, 2)) = 0
    /\ LevelOf(Node(list, 3)) = 1
    /\ Node(list, 0).forward[1] = Some(3)
    /\ \E a, b \in 1..2 : /\ Node(list, a).forward[0] = Some(3)
                          /\ Node(list, 3).forward[0] = Some(b)

\* Every index the searches and the splice of sl compute is in range: the
\* head and current_level, every index stored in a forward slot, the slot
\* count of the node a level-l pointer leads to, and that node's key.
InBounds(sl) ==
    /\ sl.head \in 0..(Len(sl.nodes) - 1)
    /\ sl.current_level \in 0..sl.max_level
    /\ DOMAIN Node(sl, sl.head).forward = 0..sl.max_level
    /\ \A j \in 0..(Len(sl.nodes) - 1) :
          /\ DOMAIN Node(sl, j).forward = 0..LevelOf(Node(sl, j))
          /\ LevelOf(Node(sl, j)) \in 0..sl.max_level
          /\ \A l \in DOMAIN Node(sl, j).forward :
                Node(sl, j).forward[l] # None =>
                    LET i == Node(sl, j).forward[l][1] IN
                    /\ 1 <= i
                    /\ i < Len(sl.nodes)
                    /\ l \in DOMAIN Node(sl, i).forward
                    /\ Node(sl, i).key # None

\* C32: no crash in put or get. In every reachable state the level drawn
\* is at most max_level (the update buffer and the head have max_level + 1
\* slots), every index in a forward slot i has 1 <= i < nodes.len(), a
\* node reached through a level-l pointer has more than l forward slots
\* and has a key, so no index is out of range and no unwrap meets None;
\* get of every key returns a value or KeyNotFound. (Every put of every
\* pair at every level is a step, so its result is such a list again.)
C32_NoPanic ==
    /\ InBounds(list)
    /\ \A level \in LevelDraws(list.max_level) : level \in 0..list.max_level
    /\ \A key \in Keys : SkipList_get(list, key)[1] \in {"Ok", "Err"}

\* get of a key that is not there returned KeyNotFound on a list of two
\* nodes that both reach the top level, max_level.
C32_Witness ==
    /\ last = Completed("get", KeyNotFound, FALSE)
    /\ list.max_level >= 1
    /\ Len(list.nodes) = 3
    /\ \A i \in NonHead(list) : LevelOf(Node(list, i)) = list.max_level
    /\ \E i, j \in NonHead(list) : Node(list, i).forward[list.max_level] = Some(j)

\* a can be had from b by leaving elements out.
RECURSIVE IsSubseq(_, _)
IsSubseq(a, b) ==
    IF a = << >> THEN TRUE
    ELSE IF b = << >> THEN FALSE
    ELSE IF Head(a) = Head(b) THEN IsSubseq(Tail(a), Tail(b))
    ELSE IsSubseq(a, Tail(b))

\* C33: level membership. In every reachable state, for every level l in
\* 0..=current_level, the chain from the head through forward[l] visits
\* the nodes other than the head that have more than l forward slots, all
\* of them and no other, each once. So the level-0 chain visits every
\* stored key, and the chain of a level is a subsequence of the chain of
\* the level below.
C33_LevelMembership ==
    /\ \A l \in 0..list.current_level :
          LET c == ChainNodes(list, l) IN
          /\ {c[j] : j \in 1..Len(c)} = {i \in NonHead(list) : LevelOf(Node(list, i)) >= l}
          /\ \A j, m \in 1..Len(c) : c[j] = c[m] => j = m
    /\ {Node(list, i).key[1] : i \in {ChainNodes(list, 0)[j] : j \in 1..Len(ChainNodes(list, 0))}}
          = {k \in Keys : acked[k] # None}
    /\ \A l \in 1..list.current_level :
          IsSubseq(ChainNodes(list, l), ChainNodes(list, l - 1))

\* Three nodes on level 0, two of them also on level 1, and the two were
\* not put one after the other in key order.
C33_Witness ==
    /\ Len(list.nodes) = 4
    /\ list.current_level = 1
    /\ Len(ChainNodes(list, 0)) = 3
    /\ Len(ChainNodes(list, 1)) = 2
    /\ ChainNodes(list, 1)[1] > ChainNodes(list, 1)[2]
    /\ ChainNodes(list, 0) # <<1, 2, 3>>

\* C34: the index is a cache of the log. For an open DB on which no append
\* has failed, between operations, get of every key returns the value of
\* the last record for the key among the records Wal::read returns for
\* the file, and KeyNotFound when read returns no record for the key.
C34_IndexIsCache ==
    (db # None /\ pc = "idle" /\ hist.failed = "no") =>
        \A k \in Keys :
            DB_get(db[1], k) = LastFor(unwrap_or_default(Wal_read(disk)), k)

\* C35: durability after a failed append. When an append on a DB failed
\* after its length prefix was written (with none, some or all but one of
\* the payload bytes), a put that returned Ok on the same DB afterwards is
\* durable: a DB constructed later on the path returns its value from get.
C35_DurableAfterFailure ==
    (db # None /\ last.op = "new") =>
        \A k \in Keys :
            (hist.late[k] = "write_payload" /\ acked[k] # None) =>
                DB_get(db[1], k) = Ok(acked[k][1])

RECURSIVE FramesLen(_)
FramesLen(records) ==
    IF records = << >> THEN 0 ELSE Len(Frame(Head(records))) + FramesLen(Tail(records))

\* C37: append is not atomic across handles. With two Wals open on one
\* path and no common lock, an append is two writes at the end of the
\* file: the step that writes the length prefix adds those 4 bytes alone,
\* the payload goes in with a later step, and the other handle may write
\* in between; every append returns Ok and adds all the bytes of its
\* frame. (The witness is the interleaving the claim says is reachable.)
C37_TwoWrites ==
    /\ [][ \A w \in WalNames :
              LET o == Owner(w)
                  kv == ThreadPair(o, threads[o].i)
              IN
              /\ (threads[o].pc = "write_len" /\ threads'[o].pc = "write_payload") =>
                    /\ fs'["p1"][1] = fs["p1"][1] \o to_be_bytes(Len(serialize(kv)))
                    /\ log' = log
              /\ (threads[o].pc = "write_payload" /\ threads'[o].pc = "idle") =>
                    /\ fs'["p1"][1] = fs["p1"][1] \o serialize(kv)
                    /\ log'["p1"] = Append(log["p1"], kv)
                    /\ last' = Completed("append", Ok(Unit), FALSE)
         ]_vars
    /\ []((\A w \in WalNames : threads[Owner(w)].pc \in {"new", "idle"}) =>
              (fs["p1"] # None => Len(fs["p1"][1]) = FramesLen(log["p1"])))

\* Each handle has made one append, both returned Ok, and the file does
\* not read as the two pairs in either order.
C37_Witness ==
    /\ \A w \in WalNames :
          wals[w] # None /\ threads[Owner(w)] = [pc |-> "idle", i |-> 1]
    /\ log["p1"] \in { <<ThreadPair(1, 0), ThreadPair(2, 0)>>,
                        <<ThreadPair(2, 0), ThreadPair(1, 0)>> }
    /\ last.op = "read"
    /\ last.ret = Wal_read(fs["p1"])
    /\ last.ret \notin { Ok(<<ThreadPair(1, 0), ThreadPair(2, 0)>>),
                          Ok(<<ThreadPair(2, 0), ThreadPair(1, 0)>>) }

\* The keys a SkipList holds.
KeysOf(sl) == {Node(sl, i).key[1] : i \in NonHead(sl)}

\* C38: results do not depend on the random levels. Two SkipLists given
\* the same sequence of puts, each with level draws (and a max_level) of
\* its own, return the same from get for every key, a value or
\* KeyNotFound, and hold the same set of keys; the gets made on both
\* returned the same.
C38_LevelsDoNotShow ==
    twin # None =>
        /\ \A k \in Keys : SkipList_get(list, k) = SkipList_get(twin[1], k)
        /\ KeysOf(list) = KeysOf(twin[1])
        /\ last.op = "get" => last.ret.list = last.ret.twin

\* The same three keys in a list that stayed on level 0 and in a twin with
\* nodes on level 1, and a get that found its key in both.
C38_Witness ==
    /\ twin # None
    /\ Len(list.nodes) = 4
    /\ list.max_level = 1
    /\ list.current_level = 0
    /\ twin[1].current_level = 1
    /\ Len(ChainNodes(twin[1], 1)) = 2
    /\ last.op = "get"
    /\ last.ret.list[1] = "Ok"
    /\ last.ret.twin = last.ret.list

====
